---- MODULE Spec2Model ----
(***************************************************************************)
(* Monte Carlo Prisoner's Dilemma: the simulation engine                   *)
(* (backend/simulation.py: StrategyConfig, PayoffConfig, SimulationConfig, *)
(* run_simulation), the parameter-sweep session of app.py                  *)
(* (start_simulation, stop_simulation, run_parameter_sweep_background)     *)
(* and the streamed single run of backend/app.py (start_run,               *)
(* simulate_stream, run_simulation_streaming).                             *)
(*                                                                         *)
(* Numbers.  Probabilities and uniform draws are fixed-point numbers in    *)
(* units of 1/ProbOne, so 1.0 is ProbOne and a draw from [0, 1) is one of  *)
(* 0 .. ProbOne - 1.  Payoff values are integers.  A float32 tensor cell   *)
(* holds an integer exactly up to 2^MantissaBits and rounds to nearest,    *)
(* ties to even, beyond (F32Round).                                        *)
(***************************************************************************)
EXTENDS Integers, Sequences, FiniteSets, TLC

(***************************************************************************)
(* Bounds of the exploration.                                              *)
(***************************************************************************)
\* rounds * monte_carlo_runs of an explored configuration is at most this
MaxTotalRounds == 4
\* the largest round_event_chunk_size explored
MaxChunk == 2
\* the number of grid points of a parameter-sweep axis is at most this
MaxAxis == 2
\* the number of start_simulation requests explored
MaxStarts == 2
\* the number of start_run / simulate_stream requests explored
MaxRequests == 2
\* the largest number of rounds a streamed run is asked for
MaxStreamRounds == 2
\* the largest batch_size a streamed run is asked for
MaxBatch == 2
\* the largest round_index a single sample_action call is given
MaxSampleRound == 3
\* the largest rounds value asked of a streamed run that has the server to itself
MaxSoloRounds == 3

\* the fixed-point representation of the probability 1.0
ProbOne == 2

\* torch.float32: 24 significant bits
MantissaBits == 24

(***************************************************************************)
(* StrategyType, ALLOWED kinds                                             *)
(***************************************************************************)
ALWAYS_COOPERATE == "always_cooperate"
ALWAYS_DEFECT == "always_defect"
PROBABILISTIC == "probabilistic"
TIT_FOR_TAT == "tit_for_tat"
RANDOM == "random"

StrategyType == {ALWAYS_COOPERATE, ALWAYS_DEFECT, PROBABILISTIC, TIT_FOR_TAT, RANDOM}

\* any value that is not (identical to) a member of StrategyType: Python
\* does not enforce the dataclass annotation `strategy_type: StrategyType`
UNRECOGNIZED == "unrecognized"

\* the default of StrategyConfig.cooperate_probability
DefaultProbability == ProbOne

(***************************************************************************)
(* float32 arithmetic on integer values                                    *)
(***************************************************************************)
Abs(x) == IF x < 0 THEN -x ELSE x

RECURSIVE Ulp(_, _)
\* the spacing of float32 values around the magnitude m (a power of two)
Ulp(m, step) == IF m < 2 * step * (2 ^ (MantissaBits - 1)) THEN step ELSE Ulp(m, 2 * step)

\* the float32 nearest to the integer x, ties to the even significand
F32Round(x) ==
    LET m == Abs(x)
        u == Ulp(m, 1)
        lo == (m \div u) * u
        r == m - lo
        q == lo \div u
        n == IF 2 * r < u THEN lo
             ELSE IF 2 * r > u THEN lo + u
             ELSE IF q % 2 = 0 THEN lo ELSE lo + u
    IN  IF x < 0 THEN -n ELSE n

\* a += b on a float32 tensor cell
F32Add(a, b) == F32Round(a + b)

\* int(t.item()) of a float32 cell holding an integer value
IntItem(x) == x

(***************************************************************************)
(* StrategyConfig                                                          *)
(***************************************************************************)
\* mutant: the range check excludes the endpoints 0.0 and 1.0
StrategyConfigValid_Open(s) ==
    ~ (s.strategy_type = PROBABILISTIC
       /\ ~ (0 < s.cooperate_probability /\ s.cooperate_probability < ProbOne))

\* StrategyConfig.__post_init__ returns without raising
StrategyConfigValid(s) ==
    ~ (s.strategy_type = PROBABILISTIC
       /\ ~ (0 <= s.cooperate_probability /\ s.cooperate_probability <= ProbOne))

ProbabilityMessage == "Probabilistic strategies require cooperate_probability in [0, 1]."

\* mutant: int(not bool(x))
IntBool_Inverted(x) == IF x = 0 THEN 1 ELSE 0

\* int(bool(x))
IntBool(x) == IF x = 0 THEN 0 ELSE 1

\* mutant: always-defect returns the code of cooperate
sample_action_Confused(s, round_index, opponent_previous_action, u, b) ==
    IF s.strategy_type = ALWAYS_COOPERATE THEN 0
    ELSE IF s.strategy_type = ALWAYS_DEFECT THEN 0
    ELSE IF s.strategy_type = TIT_FOR_TAT
         THEN (IF round_index = 1 THEN 0 ELSE IntBool(opponent_previous_action))
    ELSE IF s.strategy_type = RANDOM THEN b
    ELSE IF u < s.cooperate_probability THEN 0 ELSE 1

\* mutant: the probabilistic kind cooperates when u <= cooperate_probability
sample_action_Inclusive(s, round_index, opponent_previous_action, u, b) ==
    IF s.strategy_type = ALWAYS_COOPERATE THEN 0
    ELSE IF s.strategy_type = ALWAYS_DEFECT THEN 1
    ELSE IF s.strategy_type = TIT_FOR_TAT
         THEN (IF round_index = 1 THEN 0 ELSE IntBool(opponent_previous_action))
    ELSE IF s.strategy_type = RANDOM THEN b
    ELSE IF u <= s.cooperate_probability THEN 0 ELSE 1

\* mutant: the random kind cooperates with the configured probability
sample_action_Biased(s, round_index, opponent_previous_action, u, b) ==
    IF s.strategy_type = ALWAYS_COOPERATE THEN 0
    ELSE IF s.strategy_type = ALWAYS_DEFECT THEN 1
    ELSE IF s.strategy_type = TIT_FOR_TAT
         THEN (IF round_index = 1 THEN 0 ELSE IntBool(opponent_previous_action))
    ELSE IF u < s.cooperate_probability THEN 0 ELSE 1

\* StrategyConfig.sample_action; u is the value of rand(()), b that of
\* randint(0, 2, (1,)); 0 is cooperate, 1 is defect
sample_action(s, round_index, opponent_previous_action, u, b) ==
    IF s.strategy_type = ALWAYS_COOPERATE THEN 0
    ELSE IF s.strategy_type = ALWAYS_DEFECT THEN 1
    ELSE IF s.strategy_type = TIT_FOR_TAT
         THEN (IF round_index = 1 THEN 0 ELSE IntBool(opponent_previous_action))
    ELSE IF s.strategy_type = RANDOM THEN b
    ELSE IF u < s.cooperate_probability THEN 0 ELSE 1

\* whether sample_action consumes rand(()) / randint for this strategy
UsesRand(s) == s.strategy_type \notin {ALWAYS_COOPERATE, ALWAYS_DEFECT, TIT_FOR_TAT, RANDOM}
UsesRandint(s) == s.strategy_type = RANDOM

(***************************************************************************)
(* PayoffConfig                                                            *)
(***************************************************************************)
DefaultReward == 3
DefaultTemptation == 5
DefaultSucker == 0
DefaultPunishment == 1

DefaultPayoffs ==
    [reward |-> DefaultReward, temptation |-> DefaultTemptation,
     sucker |-> DefaultSucker, punishment |-> DefaultPunishment]

\* mutant: sucker and temptation change places in the (cooperate, defect) cell
to_tensor_Swapped(p) ==
    << << <<F32Round(p.reward), F32Round(p.reward)>>,
          <<F32Round(p.temptation), F32Round(p.sucker)>> >>,
       << <<F32Round(p.temptation), F32Round(p.sucker)>>,
          <<F32Round(p.punishment), F32Round(p.punishment)>> >> >>

\* PayoffConfig.to_tensor: [a1][a2] -> (payoff of player 1, payoff of player 2),
\* indices 0 = cooperate, 1 = defect, stored as float32
to_tensor(p) ==
    << << <<F32Round(p.reward), F32Round(p.reward)>>,
          <<F32Round(p.sucker), F32Round(p.temptation)>> >>,
       << <<F32Round(p.temptation), F32Round(p.sucker)>>,
          <<F32Round(p.punishment), F32Round(p.punishment)>> >> >>

\* mutant: the matrix is indexed by (action of player 2, action of player 1)
PayoffAt_Transposed(matrix, a1, a2) == matrix[a2 + 1][a1 + 1]

\* payoff_matrix[action_player1, action_player2]
PayoffAt(matrix, a1, a2) == matrix[a1 + 1][a2 + 1]

(***************************************************************************)
(* SimulationConfig                                                        *)
(***************************************************************************)
NoMessage == ""

\* mutant: the checks use < where the code uses <=, so zero passes
SimulationConfigError_Strict(c) ==
    IF c.rounds < 0 THEN "Number of rounds must be positive."
    ELSE IF c.monte_carlo_runs < 0 THEN "Monte Carlo runs must be positive."
    ELSE IF c.round_event_chunk_size < 0 THEN "Round event chunk size must be positive."
    ELSE NoMessage

\* SimulationConfig.__post_init__: the message of the error it raises, if any
SimulationConfigError(c) ==
    IF c.rounds <= 0 THEN "Number of rounds must be positive."
    ELSE IF c.monte_carlo_runs <= 0 THEN "Monte Carlo runs must be positive."
    ELSE IF c.round_event_chunk_size <= 0 THEN "Round event chunk size must be positive."
    ELSE NoMessage

(***************************************************************************)
(* Outcome buckets                                                         *)
(***************************************************************************)
OUTCOME_KEYS == <<"CC", "CD", "DC", "DD">>

\* mutant: the key is (action of player 2, action of player 1)
OUTCOME_INDEX_Transposed(a1, a2) == 2 * a2 + a1 + 1

\* OUTCOME_INDEX[(a1, a2)], as a 1-based position of OUTCOME_KEYS
OUTCOME_INDEX(a1, a2) == 2 * a1 + a2 + 1

\* _format_counts: the named dictionary of the four counts
_format_counts(counts) ==
    [CC |-> IntItem(counts[1]), CD |-> IntItem(counts[2]),
     DC |-> IntItem(counts[3]), DD |-> IntItem(counts[4])]

\* torch.zeros(n, dtype=float32)
Zeros2 == <<0, 0>>
Zeros4 == <<0, 0, 0, 0>>

\* mutant: = where the code has +=
AddAt_Overwrite(t, idx, v) == [t EXCEPT ![idx] = F32Round(v)]

\* t[idx] += v
AddAt(t, idx, v) == [t EXCEPT ![idx] = F32Add(@, v)]

\* mutant: t = s where the code has t += s
AddTensor_Overwrite(t, s) == [i \in DOMAIN t |-> F32Round(s[i])]

\* t += s, elementwise
AddTensor(t, s) == [i \in DOMAIN t |-> F32Add(t[i], s[i])]

\* "C" if action == 0 else "D"
ActionLetter(a) == IF a = 0 THEN "C" ELSE "D"

\* x / y as a Python float, kept as the exact fraction
Ratio(x, y) == [num |-> x, den |-> y]

(***************************************************************************)
(* State                                                                   *)
(***************************************************************************)
VARIABLES
    inputs,                     \* the arguments given to the constructors
    config,                     \* the SimulationConfig object, once it exists
    error,                      \* the exception a constructor raised
    pc,                         \* where the run_simulation generator stands
    payoff_matrix,
    run_index,
    round_index,
    run_payoff,
    run_cooperation_counts,
    run_outcome_counts,
    previous_actions,
    round_buffer,
    buffer_alias,               \* the yielded event whose list round_buffer still is, or 0
    overall_payoff,
    overall_cooperation_counts,
    overall_outcome_counts,
    events,                     \* the events yielded so far, in order
    current_simulation,         \* app.py: the session dictionary
    simulation_queue,           \* app.py: the payloads put on the queue
    sweep,                      \* app.py: the background threads
    starts,                     \* app.py: start_simulation requests served
    current_run,                \* backend/app.py: the run dictionary
    run_queue,                  \* backend/app.py: the payloads waiting on the queue
    put_log,                    \* every payload ever put on run_queue, in order
    stream,                     \* backend/app.py: the run_simulation_streaming threads
    handlers,                   \* backend/app.py: the requests being served
    rng_tape,                   \* the values the seeded generator gives, as far as drawn
    rng_pos,                    \* the number of draws since the generator was seeded
    execution,                  \* which execution after seeding is under way
    first_events,               \* the events of the first seeded execution
    call,                       \* the arguments of a sample_action call
    returned                    \* what the call returned

engineVars ==
    <<inputs, config, error, pc, payoff_matrix, run_index, round_index, run_payoff,
      run_cooperation_counts, run_outcome_counts, previous_actions, round_buffer,
      buffer_alias, overall_payoff, overall_cooperation_counts, overall_outcome_counts, events>>

sessionVars == <<current_simulation, simulation_queue, sweep, starts>>

streamVars == <<current_run, run_queue, put_log, stream, handlers>>

seedVars == <<rng_tape, rng_pos, execution, first_events>>

callVars == <<call, returned>>

vars == <<engineVars, sessionVars, streamVars, seedVars, callVars>>

NoConfig == [rounds |-> 0]
NoError == [type |-> "none", message |-> NoMessage]

\* StrategyConfig(...) for each player, then SimulationConfig(...): the
\* message of the first error raised, if any
ConstructionError(c) ==
    IF ~ StrategyConfigValid(c.player_strategies[1]) THEN ProbabilityMessage
    ELSE IF ~ StrategyConfigValid(c.player_strategies[2]) THEN ProbabilityMessage
    ELSE SimulationConfigError(c)

ConstructionValid(c) == ConstructionError(c) = NoMessage

(***************************************************************************)
(* The inputs explored                                                     *)
(***************************************************************************)
ProbInputs == (0 - 1) .. (ProbOne + 1)

StrategyInputs ==
    {[strategy_type |-> k, cooperate_probability |-> DefaultProbability] :
        k \in {ALWAYS_COOPERATE, ALWAYS_DEFECT, TIT_FOR_TAT, RANDOM}}
    \cup {[strategy_type |-> PROBABILISTIC, cooperate_probability |-> p] :
        p \in ProbInputs}
    \cup {[strategy_type |-> UNRECOGNIZED, cooperate_probability |-> ProbOne + 1]}

PayoffInputs ==
    {DefaultPayoffs,
     [reward |-> 4, temptation |-> 9, sucker |-> 0 - 2, punishment |-> 7]}

ConfigInputs ==
    {c \in [rounds : (0 - 1) .. MaxTotalRounds,
            monte_carlo_runs : (0 - 1) .. MaxTotalRounds,
            player_strategies : StrategyInputs \X StrategyInputs,
            payoffs : PayoffInputs,
            round_event_chunk_size : (0 - 1) .. MaxChunk] :
        /\ (c.rounds > 0 /\ c.monte_carlo_runs > 0)
                => c.rounds * c.monte_carlo_runs <= MaxTotalRounds
        \* PayoffConfig takes no part in validation: the configurations that
        \* are rejected are explored with the default payoffs only
        /\ ~ ConstructionValid(c) => c.payoffs = DefaultPayoffs}

\* the values rand(()) and randint(0, 2, (1,)) can return
RandValues == 0 .. (ProbOne - 1)
RandintValues == {0, 1}

\* the draws sample_action makes for strategy s: it calls rand only on the
\* last branch and randint only on the RANDOM branch
RandDraws(s) == IF UsesRand(s) THEN RandValues ELSE {0}
RandintDraws(s) == IF UsesRandint(s) THEN RandintValues ELSE {0}

(***************************************************************************)
(* Construction: StrategyConfig(...) twice, then SimulationConfig(...)     *)
(***************************************************************************)
\* mutant: the outcome counts are not reset when a run starts
NewRunState_KeepCounts ==
    /\ run_payoff' = Zeros2
    /\ run_cooperation_counts' = Zeros2
    /\ run_outcome_counts' = run_outcome_counts
    /\ previous_actions' = <<0, 0>>
    /\ round_buffer' = << >>
    /\ buffer_alias' = 0
    /\ round_index' = 1

\* mutant: the cooperation counts are not reset when a run starts
NewRunState_KeepCoop ==
    /\ run_payoff' = Zeros2
    /\ run_cooperation_counts' = run_cooperation_counts
    /\ run_outcome_counts' = Zeros4
    /\ previous_actions' = <<0, 0>>
    /\ round_buffer' = << >>
    /\ buffer_alias' = 0
    /\ round_index' = 1

\* mutant: the round buffer is not replaced by a new list when a run starts
NewRunState_KeepBuffer ==
    /\ run_payoff' = Zeros2
    /\ run_cooperation_counts' = Zeros2
    /\ run_outcome_counts' = Zeros4
    /\ previous_actions' = <<0, 0>>
    /\ round_buffer' = round_buffer
    /\ buffer_alias' = buffer_alias
    /\ round_index' = 1

\* lines 171-175 and the first value of round_index (line 177)
NewRunState ==
    /\ run_payoff' = Zeros2
    /\ run_cooperation_counts' = Zeros2
    /\ run_outcome_counts' = Zeros4
    /\ previous_actions' = <<0, 0>>
    /\ round_buffer' = << >>
    /\ buffer_alias' = 0
    /\ round_index' = 1

EngineIdle ==
    /\ payoff_matrix = << >>
    /\ run_index = 0
    /\ round_index = 0
    /\ run_payoff = Zeros2
    /\ run_cooperation_counts = Zeros2
    /\ run_outcome_counts = Zeros4
    /\ previous_actions = <<0, 0>>
    /\ round_buffer = << >>
    /\ buffer_alias = 0
    /\ overall_payoff = Zeros2
    /\ overall_cooperation_counts = Zeros2
    /\ overall_outcome_counts = Zeros4
    /\ events = << >>

SessionIdle ==
    /\ current_simulation = [status |-> "none"]
    /\ simulation_queue = << >>
    /\ sweep = << >>
    /\ starts = 0

\* backend/app.py lines 14-16: an empty queue, current_run = None
StreamIdle ==
    /\ current_run = [status |-> "none"]
    /\ run_queue = << >>
    /\ put_log = << >>
    /\ stream = << >>
    /\ handlers = << >>

\* no sample_action call under observation
SampleIdle ==
    /\ call = [round_index |-> 0]
    /\ returned = << >>

\* the random source in a state nobody has fixed
SeedIdle ==
    /\ rng_tape = << >>
    /\ rng_pos = 0
    /\ execution = 0
    /\ first_events = << >>

Init ==
    /\ inputs \in ConfigInputs
    /\ config = NoConfig
    /\ error = NoError
    /\ pc = "new"
    /\ EngineIdle
    /\ SessionIdle
    /\ StreamIdle
    /\ SeedIdle
    /\ SampleIdle

\* a constructor raises SimulationValidationError
ConstructFail ==
    /\ pc = "new"
    /\ ~ ConstructionValid(inputs)
    /\ pc' = "rejected"
    /\ error' = [type |-> "SimulationValidationError",
                 message |-> ConstructionError(inputs)]
    /\ UNCHANGED <<inputs, config, payoff_matrix, run_index, round_index, run_payoff,
                   run_cooperation_counts, run_outcome_counts, previous_actions,
                   round_buffer, buffer_alias, overall_payoff, overall_cooperation_counts,
                   overall_outcome_counts, events, sessionVars, streamVars, seedVars, callVars>>

\* the constructors return; run_simulation(config) makes the generator
ConstructOk ==
    /\ pc = "new"
    /\ ConstructionValid(inputs)
    /\ config' = inputs
    /\ pc' = "created"
    /\ UNCHANGED <<inputs, error, payoff_matrix, run_index, round_index, run_payoff,
                   run_cooperation_counts, run_outcome_counts, previous_actions,
                   round_buffer, buffer_alias, overall_payoff, overall_cooperation_counts,
                   overall_outcome_counts, events, sessionVars, streamVars, seedVars, callVars>>

(***************************************************************************)
(* run_simulation                                                          *)
(***************************************************************************)
\* mutant: > where the code has >=
BufferFull_Strict(buffer, chunk_size) == Len(buffer) > chunk_size

\* len(round_buffer) >= chunk_size
BufferFull(buffer, chunk_size) == Len(buffer) >= chunk_size

\* round_buffer.append(round_payload) changes the list object in place: an
\* event already yielded that holds this very list (alias # 0) shows the
\* longer list too
AppendInPlace(evs, alias, buffer) ==
    IF alias = 0 THEN evs ELSE [evs EXCEPT ![alias].rounds = buffer]

\* mutant: cumulative_round counts the current run as already played
RoundPayload_RunOffset(run, round, total_rounds, a1, a2, payoff, rpay, rcoop, rcounts) ==
    [run |-> run,
     round |-> round,
     cumulative_round |-> run * total_rounds + round,
     actions |-> [player1 |-> ActionLetter(a1), player2 |-> ActionLetter(a2)],
     cooperated |-> [player1 |-> (a1 = 0), player2 |-> (a2 = 0)],
     cumulative_cooperation |->
        [player1 |-> IntItem(rcoop[1]), player2 |-> IntItem(rcoop[2])],
     round_payoff |-> [player1 |-> payoff[1], player2 |-> payoff[2]],
     total_payoff |-> [player1 |-> rpay[1], player2 |-> rpay[2]],
     cooperation_rate |->
        [player1 |-> Ratio(rcoop[1], round), player2 |-> Ratio(rcoop[2], round)],
     outcome_counts |-> _format_counts(rcounts)]

\* the round payload of lines 198-227
RoundPayload(run, round, total_rounds, a1, a2, payoff, rpay, rcoop, rcounts) ==
    [run |-> run,
     round |-> round,
     cumulative_round |-> (run - 1) * total_rounds + round,
     actions |-> [player1 |-> ActionLetter(a1), player2 |-> ActionLetter(a2)],
     cooperated |-> [player1 |-> (a1 = 0), player2 |-> (a2 = 0)],
     cumulative_cooperation |->
        [player1 |-> IntItem(rcoop[1]), player2 |-> IntItem(rcoop[2])],
     round_payoff |-> [player1 |-> payoff[1], player2 |-> payoff[2]],
     total_payoff |-> [player1 |-> rpay[1], player2 |-> rpay[2]],
     cooperation_rate |->
        [player1 |-> Ratio(rcoop[1], round), player2 |-> Ratio(rcoop[2], round)],
     outcome_counts |-> _format_counts(rcounts)]

\* the first next(): lines 161-175, up to the first round
Begin ==
    /\ pc = "created"
    /\ payoff_matrix' = to_tensor(config.payoffs)
    /\ overall_payoff' = Zeros2
    /\ overall_cooperation_counts' = Zeros2
    /\ overall_outcome_counts' = Zeros4
    /\ run_index' = 1
    /\ NewRunState
    /\ pc' = "round"
    /\ UNCHANGED <<inputs, config, error, events, sessionVars, streamVars, seedVars, callVars>>

\* one iteration of the inner loop, lines 177-234, for the values u1, b1
\* (player 1) and u2, b2 (player 2) the random source returns
Round(u1, u2, b1, b2) ==
    /\ pc = "round"
    /\  LET action_player1 ==
                sample_action(config.player_strategies[1], round_index,
                              previous_actions[2], u1, b1)
            action_player2 ==
                sample_action(config.player_strategies[2], round_index,
                              previous_actions[1], u2, b2)
            payoff == PayoffAt(payoff_matrix, action_player1, action_player2)
            rpay == <<F32Add(run_payoff[1], payoff[1]), F32Add(run_payoff[2], payoff[2])>>
            rcoop1 == IF action_player1 = 0
                      THEN AddAt(run_cooperation_counts, 1, 1)
                      ELSE run_cooperation_counts
            rcoop == IF action_player2 = 0 THEN AddAt(rcoop1, 2, 1) ELSE rcoop1
            rcounts == AddAt(run_outcome_counts,
                             OUTCOME_INDEX(action_player1, action_player2), 1)
            round_payload ==
                RoundPayload(run_index, round_index, config.rounds, action_player1,
                             action_player2, payoff, rpay, rcoop, rcounts)
            buffer == Append(round_buffer, round_payload)
        IN  /\ run_payoff' = rpay
            /\ run_cooperation_counts' = rcoop
            /\ run_outcome_counts' = rcounts
            /\ IF BufferFull(buffer, config.round_event_chunk_size)
               THEN /\ events' = Append(AppendInPlace(events, buffer_alias, buffer),
                                        [name |-> "round_batch", rounds |-> buffer])
                    /\ round_buffer' = << >>
                    /\ buffer_alias' = 0
               ELSE /\ events' = AppendInPlace(events, buffer_alias, buffer)
                    /\ round_buffer' = buffer
                    /\ buffer_alias' = buffer_alias
            /\ previous_actions' = <<action_player1, action_player2>>
    /\ IF round_index < config.rounds
       THEN round_index' = round_index + 1 /\ pc' = "round"
       ELSE round_index' = round_index /\ pc' = "run_end"
    /\ UNCHANGED <<inputs, config, error, payoff_matrix, run_index, overall_payoff,
                   overall_cooperation_counts, overall_outcome_counts, sessionVars, streamVars,
                   callVars>>

\* a round played with a random source in an arbitrary state
PlayRound ==
    /\ pc = "round"
    /\ \E u1 \in RandDraws(config.player_strategies[1]),
          u2 \in RandDraws(config.player_strategies[2]),
          b1 \in RandintDraws(config.player_strategies[1]),
          b2 \in RandintDraws(config.player_strategies[2]) :
            Round(u1, u2, b1, b2)
    /\ UNCHANGED seedVars

\* lines 236-241: fold the run into the overall totals, flush a partial batch
FinishRun ==
    /\ pc = "run_end"
    /\ overall_payoff' = AddTensor(overall_payoff, run_payoff)
    /\ overall_cooperation_counts' =
            AddTensor(overall_cooperation_counts, run_cooperation_counts)
    /\ overall_outcome_counts' = AddTensor(overall_outcome_counts, run_outcome_counts)
    /\ events' = IF round_buffer # << >>
                 THEN Append(events, [name |-> "round_batch", rounds |-> round_buffer])
                 ELSE events
    /\ buffer_alias' = IF round_buffer # << >> THEN Len(events) + 1 ELSE buffer_alias
    /\ pc' = "run_complete"
    /\ UNCHANGED <<inputs, config, error, payoff_matrix, run_index, round_index, run_payoff,
                   run_cooperation_counts, run_outcome_counts, previous_actions,
                   round_buffer, sessionVars, streamVars, seedVars, callVars>>

\* the run_complete payload of lines 243-265
RunCompletePayload(run, total_rounds, rpay, rcoop, rcounts) ==
    [name |-> "run_complete",
     run |-> run,
     total_payoff |-> [player1 |-> rpay[1], player2 |-> rpay[2]],
     total_cooperation |-> [player1 |-> IntItem(rcoop[1]), player2 |-> IntItem(rcoop[2])],
     average_payoff_per_round |->
        [player1 |-> Ratio(rpay[1], total_rounds), player2 |-> Ratio(rpay[2], total_rounds)],
     cooperation_rate |->
        [player1 |-> Ratio(rcoop[1], total_rounds), player2 |-> Ratio(rcoop[2], total_rounds)],
     outcome_counts |-> _format_counts(rcounts)]

\* mutant: the range of runs is one too long
HasNextRun_OffByOne(run, total_runs) == run <= total_runs

\* mutant: the loop over the runs never ends
HasNextRun_Forever(run, total_runs) == TRUE

\* for run_index in range(1, total_runs + 1): is there a next run
HasNextRun(run, total_runs) == run < total_runs

\* lines 243-265, then the next run's lines 170-175 or the end of the loop
EmitRunComplete ==
    /\ pc = "run_complete"
    /\ events' = Append(events,
            RunCompletePayload(run_index, config.rounds, run_payoff,
                               run_cooperation_counts, run_outcome_counts))
    /\ IF HasNextRun(run_index, config.monte_carlo_runs)
       THEN /\ run_index' = run_index + 1
            /\ NewRunState
            /\ pc' = "round"
       ELSE /\ pc' = "summary"
            /\ UNCHANGED <<run_index, round_index, run_payoff, run_cooperation_counts,
                           run_outcome_counts, previous_actions, round_buffer, buffer_alias>>
    /\ UNCHANGED <<inputs, config, error, payoff_matrix, overall_payoff, overall_cooperation_counts,
                   overall_outcome_counts, sessionVars, streamVars, seedVars, callVars>>

\* the final summary of lines 267-299
SummaryPayload(c, opay, ocoop, ocounts) ==
    LET total_rounds_played == c.rounds * c.monte_carlo_runs
    IN  [name |-> "summary",
         runs |-> c.monte_carlo_runs,
         rounds |-> c.rounds,
         total_payoff |-> [player1 |-> opay[1], player2 |-> opay[2]],
         average_payoff_per_round |->
            [player1 |-> Ratio(opay[1], total_rounds_played),
             player2 |-> Ratio(opay[2], total_rounds_played)],
         cooperation_rate |->
            [player1 |-> Ratio(ocoop[1], total_rounds_played),
             player2 |-> Ratio(ocoop[2], total_rounds_played)],
         total_cooperation |->
            [player1 |-> IntItem(ocoop[1]), player2 |-> IntItem(ocoop[2])],
         outcome_counts |-> _format_counts(ocounts),
         outcome_distribution |->
            [k \in 1 .. 4 |-> Ratio(ocounts[k], total_rounds_played)],
         payoffs |-> c.payoffs,
         round_event_chunk_size |-> c.round_event_chunk_size]

\* lines 267-301
EmitSummary ==
    /\ pc = "summary"
    /\ events' = Append(events,
            SummaryPayload(config, overall_payoff, overall_cooperation_counts,
                           overall_outcome_counts))
    /\ pc' = "yielded_summary"
    /\ UNCHANGED <<inputs, config, error, payoff_matrix, run_index, round_index, run_payoff,
                   run_cooperation_counts, run_outcome_counts, previous_actions,
                   round_buffer, buffer_alias, overall_payoff, overall_cooperation_counts,
                   overall_outcome_counts, sessionVars, streamVars, seedVars, callVars>>

\* the next() after the summary: the function body ends, StopIteration
Exhaust ==
    /\ pc = "yielded_summary"
    /\ pc' = "exhausted"
    /\ UNCHANGED <<inputs, config, error, payoff_matrix, run_index, round_index, run_payoff,
                   run_cooperation_counts, run_outcome_counts, previous_actions,
                   round_buffer, buffer_alias, overall_payoff, overall_cooperation_counts,
                   overall_outcome_counts, events, sessionVars, streamVars, seedVars, callVars>>

Next ==
    \/ ConstructFail
    \/ ConstructOk
    \/ Begin
    \/ PlayRound
    \/ FinishRun
    \/ EmitRunComplete
    \/ EmitSummary
    \/ Exhaust

Spec == Init /\ [][Next]_vars

(***************************************************************************)
(* app.py: the parameter-sweep session                                     *)
(*                                                                         *)
(* current_simulation is the global name; rebinding it (line 97) replaces  *)
(* the dictionary every later reader and writer sees.  A thread record     *)
(* holds the locals of one run_parameter_sweep_background call.            *)
(***************************************************************************)
\* len(p1_probs) = int(1.0 / step_size) + 1 grid points per axis
AxisInputs == 1 .. MaxAxis

\* `if current_simulation:` : the name is bound to a (non-empty) dictionary
Truthy(cs) == cs.status # "none"

\* start_simulation, lines 2021-2039; raises_ says whether
\* run_monte_carlo_simulation raises for the rounds_per_config given
start_simulation(axis, raises_) ==
    /\ starts < MaxStarts
    /\ ~ (Truthy(current_simulation) /\ current_simulation.status = "running")
    /\ sweep' = Append(sweep, [pc |-> "init", total_configs |-> axis * axis,
                               results |-> 0, raises |-> raises_])
    /\ starts' = starts + 1
    /\ UNCHANGED <<current_simulation, simulation_queue, engineVars, streamVars, seedVars, callVars>>

\* stop_simulation, lines 2046-2047
stop_simulation ==
    /\ IF Truthy(current_simulation)
       THEN current_simulation' = [current_simulation EXCEPT !.status = "stopped"]
       ELSE current_simulation' = current_simulation
    /\ UNCHANGED <<simulation_queue, sweep, starts, engineVars, streamVars, seedVars, callVars>>

\* run_parameter_sweep_background, lines 88-103
SweepBegin(t) ==
    /\ sweep[t].pc = "init"
    /\ current_simulation' =
            [status |-> "running", total_configs |-> sweep[t].total_configs,
             completed_configs |-> 0]
    /\ sweep' = [sweep EXCEPT ![t].pc = "loop"]
    /\ UNCHANGED <<simulation_queue, starts, engineVars, streamVars, seedVars, callVars>>

\* the loop condition of lines 105-106: another configuration is left
MoreConfigs(th, cs) == th.results < th.total_configs

\* one iteration of the loops of lines 105-140
SweepConfig(t) ==
    /\ sweep[t].pc = "loop"
    /\ MoreConfigs(sweep[t], current_simulation)
    /\ ~ sweep[t].raises
    /\ current_simulation' =
            [current_simulation EXCEPT !.completed_configs = @ + 1]
    /\ simulation_queue' = Append(simulation_queue,
            [type |-> "progress", thread |-> t,
             completed |-> current_simulation.completed_configs + 1,
             total |-> sweep[t].total_configs])
    /\ sweep' = [sweep EXCEPT ![t].results = @ + 1]
    /\ UNCHANGED <<starts, engineVars, streamVars, seedVars, callVars>>

\* lines 143-154: the loops are over, the completion is sent
SweepComplete(t) ==
    /\ sweep[t].pc = "loop"
    /\ ~ MoreConfigs(sweep[t], current_simulation)
    /\ simulation_queue' = Append(simulation_queue,
            [type |-> "complete", thread |-> t, completed |-> sweep[t].results,
             total |-> sweep[t].total_configs])
    /\ sweep' = [sweep EXCEPT ![t].pc = "sent"]
    /\ UNCHANGED <<current_simulation, starts, engineVars, streamVars, seedVars, callVars>>

\* the status written at line 156
FinalStatus(cs) == "completed"

\* line 156
SweepSetCompleted(t) ==
    /\ sweep[t].pc = "sent"
    /\ current_simulation' = [current_simulation EXCEPT !.status = FinalStatus(current_simulation)]
    /\ sweep' = [sweep EXCEPT ![t].pc = "done"]
    /\ UNCHANGED <<simulation_queue, starts, engineVars, streamVars, seedVars, callVars>>

\* run_monte_carlo_simulation raises in the loop: lines 158-163
SweepExcept(t) ==
    /\ sweep[t].pc = "loop"
    /\ MoreConfigs(sweep[t], current_simulation)
    /\ sweep[t].raises
    /\ current_simulation' = [current_simulation EXCEPT !.status = "error"]
    /\ simulation_queue' = Append(simulation_queue,
            [type |-> "error", thread |-> t, completed |-> sweep[t].results,
             total |-> sweep[t].total_configs])
    /\ sweep' = [sweep EXCEPT ![t].pc = "failed"]
    /\ UNCHANGED <<starts, engineVars, streamVars, seedVars, callVars>>

\* the engine takes no part in the session
InitSweep ==
    /\ inputs = [rounds |-> 1, monte_carlo_runs |-> 1,
                 player_strategies |->
                    <<[strategy_type |-> ALWAYS_COOPERATE,
                       cooperate_probability |-> DefaultProbability],
                      [strategy_type |-> ALWAYS_COOPERATE,
                       cooperate_probability |-> DefaultProbability]>>,
                 payoffs |-> DefaultPayoffs, round_event_chunk_size |-> 1]
    /\ config = NoConfig
    /\ error = NoError
    /\ pc = "new"
    /\ EngineIdle
    /\ SessionIdle
    /\ StreamIdle
    /\ SeedIdle
    /\ SampleIdle

NextSweep ==
    \/ \E axis \in AxisInputs, raises_ \in BOOLEAN : start_simulation(axis, raises_)
    \/ stop_simulation
    \/ \E t \in DOMAIN sweep : SweepBegin(t)
    \/ \E t \in DOMAIN sweep : SweepConfig(t)
    \/ \E t \in DOMAIN sweep : SweepComplete(t)
    \/ \E t \in DOMAIN sweep : SweepSetCompleted(t)
    \/ \E t \in DOMAIN sweep : SweepExcept(t)

SpecSweep == InitSweep /\ [][NextSweep]_vars

(***************************************************************************)
(* Reading the event stream                                                *)
(***************************************************************************)
Constructed == pc \notin {"new", "rejected"}

Sum4(c) == c.CC + c.CD + c.DC + c.DD

\* the number of run_complete events before position i
RunCompletesBefore(i) ==
    Cardinality({j \in 1 .. (i - 1) : events[j].name = "run_complete"})

\* the run a round_batch or run_complete event at position i belongs to
RunOfEvent(i) == RunCompletesBefore(i) + 1

RECURSIVE BatchSizes(_, _)
\* the sizes of the round_batch events of run r among the first i events
BatchSizes(i, r) ==
    IF i = 0 THEN << >>
    ELSE IF events[i].name = "round_batch" /\ RunOfEvent(i) = r
         THEN Append(BatchSizes(i - 1, r), Len(events[i].rounds))
         ELSE BatchSizes(i - 1, r)

RECURSIVE SumSeq(_)
SumSeq(q) == IF q = << >> THEN 0 ELSE Head(q) + SumSeq(Tail(q))

Ceil(x, y) == (x + y - 1) \div y

Player(k) == inputs.player_strategies[k]

(***************************************************************************)
(* C1.  In every run_complete event the four outcome counts sum to the     *)
(* rounds per run, and in the summary they sum to rounds * runs.           *)
(***************************************************************************)
C1_OutcomeCountsSum ==
    \A i \in DOMAIN events :
        /\ events[i].name = "run_complete"
            => Sum4(events[i].outcome_counts) = config.rounds
        /\ events[i].name = "summary"
            => Sum4(events[i].outcome_counts) = config.rounds * config.monte_carlo_runs

\* a finished simulation of several runs of several rounds whose summary
\* counts three different outcomes
C1_Witness ==
    /\ pc = "exhausted"
    /\ config.rounds >= 2
    /\ config.monte_carlo_runs >= 2
    /\ events[Len(events)].name = "summary"
    /\ events[Len(events)].outcome_counts.CC > 0
    /\ events[Len(events)].outcome_counts.CD > 0
    /\ events[Len(events)].outcome_counts.DD > 0

(***************************************************************************)
(* C2.  The event stream has the shape (round_batch* run_complete)^N       *)
(* summary: the round_batch events of run k come before the k-th           *)
(* run_complete, which carries run = k; no summary comes before the N-th   *)
(* run_complete, and exactly one summary follows it, as the last event.    *)
(***************************************************************************)
C2_EventOrder ==
    /\ \A i \in DOMAIN events :
        LET e == events[i]
            k == RunCompletesBefore(i)
        IN  /\ e.name \in {"round_batch", "run_complete", "summary"}
            /\ e.name = "round_batch" =>
                    /\ k < config.monte_carlo_runs
                    /\ \A j \in DOMAIN e.rounds : e.rounds[j].run = k + 1
            /\ e.name = "run_complete" =>
                    /\ e.run = k + 1
                    /\ e.run <= config.monte_carlo_runs
            /\ e.name = "summary" =>
                    /\ k = config.monte_carlo_runs
                    /\ i = Len(events)
    /\ pc \in {"yielded_summary", "exhausted"} =>
            /\ events # << >>
            /\ events[Len(events)].name = "summary"
    /\ (\E i \in DOMAIN events : events[i].name = "summary")
            => pc \in {"yielded_summary", "exhausted"}

\* a finished simulation of several runs, each with more than one batch
C2_Witness ==
    /\ pc = "exhausted"
    /\ config.monte_carlo_runs >= 2
    /\ config.rounds > config.round_event_chunk_size
    /\ Len(events) >= 3 * config.monte_carlo_runs + 1

(***************************************************************************)
(* C3.  A run of R rounds with chunk size C has exactly ceil(R / C)        *)
(* round_batch events; their sizes sum to R, every batch but the last      *)
(* holds C records and the last holds between 1 and C.                     *)
(***************************************************************************)
C3_BatchSizes ==
    \A i \in DOMAIN events :
        events[i].name = "run_complete" =>
            LET sizes == BatchSizes(i, RunOfEvent(i))
                R == config.rounds
                C == config.round_event_chunk_size
            IN  /\ Len(sizes) = Ceil(R, C)
                /\ SumSeq(sizes) = R
                /\ \A j \in 1 .. (Len(sizes) - 1) : sizes[j] = C
                /\ sizes[Len(sizes)] >= 1
                /\ sizes[Len(sizes)] <= C

\* a finished simulation whose runs end with a batch smaller than the chunk
C3_Witness ==
    /\ pc = "exhausted"
    /\ config.rounds > config.round_event_chunk_size
    /\ config.rounds % config.round_event_chunk_size # 0
    /\ config.round_event_chunk_size >= 2

(***************************************************************************)
(* C4.  Every round is reported as an event of its own named "round", so   *)
(* a finished simulation has yielded exactly rounds * runs such events.    *)
(***************************************************************************)
C4_RoundEvents ==
    pc = "exhausted" =>
        Cardinality({i \in DOMAIN events : events[i].name = "round"})
            = config.rounds * config.monte_carlo_runs

(***************************************************************************)
(* C5.  A strategy kind that is not one of the five recognized kinds is    *)
(* refused at construction: no configuration holding one is ever built     *)
(* and no event is produced for it.                                        *)
(***************************************************************************)
C5_UnrecognizedKindRejected ==
    (\E k \in {1, 2} : Player(k).strategy_type \notin StrategyType)
        => /\ ~ Constructed
           /\ events = << >>

(***************************************************************************)
(* C6.  rounds <= 0, monte_carlo_runs <= 0 or round_event_chunk_size <= 0  *)
(* raises SimulationValidationError at construction: no SimulationConfig   *)
(* with a non-positive value exists and no event is produced.              *)
(***************************************************************************)
C6_NonPositiveRejected ==
    /\ (inputs.rounds <= 0 \/ inputs.monte_carlo_runs <= 0
            \/ inputs.round_event_chunk_size <= 0)
        => /\ ~ Constructed
           /\ config = NoConfig
           /\ events = << >>
           /\ pc = "rejected" => error.type = "SimulationValidationError"
    /\ config # NoConfig
        => /\ config.rounds > 0
           /\ config.monte_carlo_runs > 0
           /\ config.round_event_chunk_size > 0

\* the constructor refused a configuration whose only fault is a chunk size of 0
C6_Witness ==
    /\ pc = "rejected"
    /\ error.type = "SimulationValidationError"
    /\ inputs.rounds > 0
    /\ inputs.monte_carlo_runs > 0
    /\ inputs.round_event_chunk_size = 0
    /\ \A k \in {1, 2} : Player(k).strategy_type = ALWAYS_COOPERATE

(***************************************************************************)
(* C7.  A probabilistic StrategyConfig with cooperate_probability outside  *)
(* [0, 1] raises SimulationValidationError and is never sampled; every     *)
(* value inside [0, 1], endpoints included, is accepted.                   *)
(***************************************************************************)
C7_ProbabilityRange ==
    /\ \A k \in {1, 2} :
        (/\ Player(k).strategy_type = PROBABILISTIC
         /\ (Player(k).cooperate_probability < 0
                \/ Player(k).cooperate_probability > ProbOne))
        => /\ ~ Constructed
           /\ events = << >>
           /\ pc = "rejected" =>
                /\ error.type = "SimulationValidationError"
                /\ error.message = ProbabilityMessage
    /\ error.message = ProbabilityMessage
        => \E k \in {1, 2} :
            /\ Player(k).strategy_type = PROBABILISTIC
            /\ (Player(k).cooperate_probability < 0
                    \/ Player(k).cooperate_probability > ProbOne)

\* player 1's probability 1.0 was accepted, player 2's 1.5 was refused
C7_Witness ==
    /\ pc = "rejected"
    /\ error.message = ProbabilityMessage
    /\ Player(1).strategy_type = PROBABILISTIC
    /\ Player(1).cooperate_probability = ProbOne
    /\ Player(2).strategy_type = PROBABILISTIC
    /\ Player(2).cooperate_probability > ProbOne

(***************************************************************************)
(* C8.  Once the session is marked stopped, the running loop processes no  *)
(* further configuration and the stopped status is not overwritten by      *)
(* 'completed'.                                                            *)
(***************************************************************************)
C8_StopHonoured ==
    [][current_simulation.status = "stopped"
        => /\ current_simulation'.status # "completed"
           /\ simulation_queue' = simulation_queue
                \/ simulation_queue'[Len(simulation_queue')].type # "progress"]_vars

(***************************************************************************)
(* C9.  Consuming run_simulation terminates: every step brings the         *)
(* generator closer to exhaustion, it gets there, and the summary is the   *)
(* last event when it does.                                                *)
(***************************************************************************)
\* the number of steps the generator has left
Remaining ==
    LET R == inputs.rounds
        N == inputs.monte_carlo_runs
        perRun == R + 2
        tail == (N - run_index) * perRun + 2
    IN  CASE pc = "new" -> IF ConstructionValid(inputs) THEN N * perRun + 4 ELSE 1
          [] pc = "rejected" -> 0
          [] pc = "created" -> N * perRun + 3
          [] pc = "round" -> (R - round_index + 1) + 2 + tail
          [] pc = "run_end" -> 2 + tail
          [] pc = "run_complete" -> 1 + tail
          [] pc = "summary" -> 2
          [] pc = "yielded_summary" -> 1
          [] pc = "exhausted" -> 0

C9_Terminates ==
    /\ [][Remaining' < Remaining /\ Remaining' >= 0]_vars
    /\ [](pc = "exhausted" =>
            /\ events[Len(events)].name = "summary"
            /\ ~ ENABLED Next)
    /\ (pc = "created") ~> (pc = "exhausted")

\* a generator of several runs that has been consumed to the end
C9_Witness ==
    /\ pc = "exhausted"
    /\ config.monte_carlo_runs >= 2
    /\ config.rounds >= 2
    /\ events[Len(events)].name = "summary"

FairSpec == Spec /\ WF_vars(Next)

(***************************************************************************)
(* C10.  Tit-for-tat (player 1) against always-defect (player 2):          *)
(* player 1 cooperates in round 1 of a run and defects in every later      *)
(* round; the run's total payoff is sucker + (R - 1) * punishment for      *)
(* player 1 and temptation + (R - 1) * punishment for player 2.            *)
(***************************************************************************)
C10_TitForTatVsDefect ==
    (/\ Constructed
     /\ config.player_strategies[1].strategy_type = TIT_FOR_TAT
     /\ config.player_strategies[2].strategy_type = ALWAYS_DEFECT)
    => \A i \in DOMAIN events :
        LET e == events[i]
            p == config.payoffs
            R == config.rounds
        IN  /\ e.name = "round_batch" =>
                \A j \in DOMAIN e.rounds :
                    /\ e.rounds[j].actions.player1
                            = (IF e.rounds[j].round = 1 THEN "C" ELSE "D")
                    /\ e.rounds[j].actions.player2 = "D"
            /\ e.name = "run_complete" =>
                /\ e.total_payoff.player1 = p.sucker + (R - 1) * p.punishment
                /\ e.total_payoff.player2 = p.temptation + (R - 1) * p.punishment

\* two finished runs of two rounds of tit-for-tat against always-defect,
\* with payoffs other than the defaults
C10_Witness ==
    /\ pc = "exhausted"
    /\ config.player_strategies[1].strategy_type = TIT_FOR_TAT
    /\ config.player_strategies[2].strategy_type = ALWAYS_DEFECT
    /\ config.rounds >= 2
    /\ config.monte_carlo_runs >= 2
    /\ config.payoffs # DefaultPayoffs

(***************************************************************************)
(* Constant strategies                                                     *)
(***************************************************************************)
\* a configuration was built for player kinds k1 and k2
Kinds(k1, k2) ==
    /\ Constructed
    /\ config.player_strategies[1].strategy_type = k1
    /\ config.player_strategies[2].strategy_type = k2

\* the float x / y is 1.0
IsOne(r) == r.den # 0 /\ r.num = r.den

\* the float x / y is 0.0
IsZero(r) == r.den # 0 /\ r.num = 0

\* the rounds an event accounts for: a run's, or all of them for the summary
RoundsOf(e) ==
    IF e.name = "summary" THEN config.rounds * config.monte_carlo_runs ELSE config.rounds

Totals == {"run_complete", "summary"}

(***************************************************************************)
(* C11.  Always-cooperate against always-cooperate: a run of R rounds      *)
(* (and the summary of a single run) reports total payoff R * reward for   *)
(* both players, cooperation_rate 1.0 and total_cooperation R for both,    *)
(* CC = R and CD = DC = DD = 0; the summary of N runs reports the same     *)
(* for R * N rounds.                                                       *)
(***************************************************************************)
C11_BothCooperate ==
    Kinds(ALWAYS_COOPERATE, ALWAYS_COOPERATE) =>
        \A i \in DOMAIN events :
            LET e == events[i]
                R == RoundsOf(e)
            IN  e.name \in Totals =>
                    /\ e.total_payoff.player1 = R * config.payoffs.reward
                    /\ e.total_payoff.player2 = R * config.payoffs.reward
                    /\ IsOne(e.cooperation_rate.player1)
                    /\ IsOne(e.cooperation_rate.player2)
                    /\ e.total_cooperation.player1 = R
                    /\ e.total_cooperation.player2 = R
                    /\ e.outcome_counts = [CC |-> R, CD |-> 0, DC |-> 0, DD |-> 0]

\* one finished run of several rounds of always-cooperate against
\* always-cooperate with a reward other than the default
C11_Witness ==
    /\ pc = "exhausted"
    /\ Kinds(ALWAYS_COOPERATE, ALWAYS_COOPERATE)
    /\ config.monte_carlo_runs = 1
    /\ config.rounds >= 3
    /\ config.payoffs.reward # DefaultReward
    /\ events[Len(events)].name = "summary"
    /\ events[Len(events)].outcome_counts.CC = config.rounds

(***************************************************************************)
(* C12.  Always-cooperate (player 1) against always-defect (player 2):     *)
(* over R rounds player 1's total payoff is R * sucker, player 2's is      *)
(* R * temptation, CD = R and CC = DC = DD = 0.                            *)
(***************************************************************************)
C12_CooperateVsDefect ==
    Kinds(ALWAYS_COOPERATE, ALWAYS_DEFECT) =>
        \A i \in DOMAIN events :
            LET e == events[i]
                R == RoundsOf(e)
            IN  e.name \in Totals =>
                    /\ e.total_payoff.player1 = R * config.payoffs.sucker
                    /\ e.total_payoff.player2 = R * config.payoffs.temptation
                    /\ e.outcome_counts = [CC |-> 0, CD |-> R, DC |-> 0, DD |-> 0]

\* a finished simulation of always-cooperate against always-defect whose
\* sucker payoff is negative
C12_Witness ==
    /\ pc = "exhausted"
    /\ Kinds(ALWAYS_COOPERATE, ALWAYS_DEFECT)
    /\ config.rounds >= 2
    /\ config.payoffs.sucker < 0
    /\ events[Len(events)].name = "summary"
    /\ events[Len(events)].outcome_counts.CD >= 2

(***************************************************************************)
(* C13.  Always-defect against always-defect: over R rounds both total     *)
(* payoffs are R * punishment, DD = R, CC = CD = DC = 0 and both           *)
(* cooperation counts are 0.                                               *)
(***************************************************************************)
C13_BothDefect ==
    Kinds(ALWAYS_DEFECT, ALWAYS_DEFECT) =>
        \A i \in DOMAIN events :
            LET e == events[i]
                R == RoundsOf(e)
            IN  e.name \in Totals =>
                    /\ e.total_payoff.player1 = R * config.payoffs.punishment
                    /\ e.total_payoff.player2 = R * config.payoffs.punishment
                    /\ e.total_cooperation.player1 = 0
                    /\ e.total_cooperation.player2 = 0
                    /\ IsZero(e.cooperation_rate.player1)
                    /\ IsZero(e.cooperation_rate.player2)
                    /\ e.outcome_counts = [CC |-> 0, CD |-> 0, DC |-> 0, DD |-> R]

\* a finished simulation of several rounds of always-defect against
\* always-defect with a punishment other than the default
C13_Witness ==
    /\ pc = "exhausted"
    /\ Kinds(ALWAYS_DEFECT, ALWAYS_DEFECT)
    /\ config.rounds >= 2
    /\ config.payoffs.punishment # DefaultPunishment
    /\ events[Len(events)].name = "summary"
    /\ events[Len(events)].outcome_counts.DD >= 2

(***************************************************************************)
(* Round records                                                           *)
(***************************************************************************)
RECURSIVE RecordsTo(_)
\* the round records of the first i events, in the order they were emitted
RecordsTo(i) ==
    IF i = 0 THEN << >>
    ELSE IF events[i].name = "round_batch"
         THEN RecordsTo(i - 1) \o events[i].rounds
         ELSE RecordsTo(i - 1)

Records == RecordsTo(Len(events))

\* the payoff pair the payoff table gives for two action letters
Lookup(p, l1, l2) ==
    CASE l1 = "C" /\ l2 = "C" -> [player1 |-> p.reward, player2 |-> p.reward]
      [] l1 = "C" /\ l2 = "D" -> [player1 |-> p.sucker, player2 |-> p.temptation]
      [] l1 = "D" /\ l2 = "C" -> [player1 |-> p.temptation, player2 |-> p.sucker]
      [] l1 = "D" /\ l2 = "D" -> [player1 |-> p.punishment, player2 |-> p.punishment]

(***************************************************************************)
(* C15.  The round_payoff of every round record is the pair the payoff     *)
(* table gives for that record's actions: (C,C) -> (reward, reward),       *)
(* (C,D) -> (sucker, temptation), (D,C) -> (temptation, sucker),           *)
(* (D,D) -> (punishment, punishment), player 1's action first.             *)
(***************************************************************************)
C15_PayoffLookup ==
    Constructed =>
        \A n \in DOMAIN Records :
            LET r == Records[n]
            IN  /\ r.actions.player1 \in {"C", "D"}
                /\ r.actions.player2 \in {"C", "D"}
                /\ r.round_payoff
                    = Lookup(config.payoffs, r.actions.player1, r.actions.player2)

\* a finished simulation with custom payoffs in which each of the four
\* action pairs was played once
C15_Witness ==
    /\ pc = "exhausted"
    /\ config.payoffs # DefaultPayoffs
    /\ events[Len(events)].name = "summary"
    /\ events[Len(events)].outcome_counts = [CC |-> 1, CD |-> 1, DC |-> 1, DD |-> 1]
    /\ Len(Records) = 4

(***************************************************************************)
(* C16.  A tit-for-tat player, in either position, cooperates in round 1   *)
(* of every run and in round k >= 2 plays what its opponent played in      *)
(* round k - 1 of the same run.                                            *)
(***************************************************************************)
C16_TitForTat ==
    Constructed =>
        \A n \in DOMAIN Records :
            LET r == Records[n]
                mine(k) == IF k = 1 THEN r.actions.player1 ELSE r.actions.player2
            IN  \A k \in {1, 2} :
                    config.player_strategies[k].strategy_type = TIT_FOR_TAT =>
                        IF r.round = 1
                        THEN mine(k) = "C"
                        ELSE /\ n > 1
                             /\ Records[n - 1].run = r.run
                             /\ Records[n - 1].round = r.round - 1
                             /\ mine(k) = (IF k = 1
                                           THEN Records[n - 1].actions.player2
                                           ELSE Records[n - 1].actions.player1)

\* two finished runs of two rounds with tit-for-tat as player 2: its
\* opponent defected in both rounds of run 1, tit-for-tat defected in round
\* 2 of run 1 and cooperated again in round 1 of run 2
C16_Witness ==
    /\ pc = "exhausted"
    /\ config.player_strategies[2].strategy_type = TIT_FOR_TAT
    /\ config.player_strategies[1].strategy_type # TIT_FOR_TAT
    /\ config.rounds = 2
    /\ config.monte_carlo_runs = 2
    /\ Len(Records) = 4
    /\ Records[1].actions.player1 = "D"
    /\ Records[2].actions.player1 = "D"
    /\ Records[2].actions.player2 = "D"
    /\ Records[3].actions.player2 = "C"
    /\ Records[3].run = 2

(***************************************************************************)
(* C19.  In every run_complete event and in the summary, player 1's total  *)
(* payoff is CC * reward + CD * sucker + DC * temptation + DD * punishment *)
(* and player 2's is CC * reward + CD * temptation + DC * sucker           *)
(* + DD * punishment, for the outcome counts of the same event.            *)
(***************************************************************************)
C19_PayoffFromCounts ==
    Constructed =>
        \A i \in DOMAIN events :
            LET e == events[i]
                c == e.outcome_counts
                p == config.payoffs
            IN  e.name \in Totals =>
                    /\ e.total_payoff.player1
                        = c.CC * p.reward + c.CD * p.sucker
                            + c.DC * p.temptation + c.DD * p.punishment
                    /\ e.total_payoff.player2
                        = c.CC * p.reward + c.CD * p.temptation
                            + c.DC * p.sucker + c.DD * p.punishment

\* a finished simulation of several runs with custom payoffs whose summary
\* counts more CD than DC outcomes
C19_Witness ==
    /\ pc = "exhausted"
    /\ config.monte_carlo_runs >= 2
    /\ config.payoffs # DefaultPayoffs
    /\ events[Len(events)].name = "summary"
    /\ events[Len(events)].outcome_counts.CD = 2
    /\ events[Len(events)].outcome_counts.DC = 1
    /\ events[Len(events)].outcome_counts.DD = 1

(***************************************************************************)
(* C20.  In every round record, run_complete event and summary, player     *)
(* 1's cooperation count is CC + CD and player 2's is CC + DC of the same  *)
(* record.                                                                 *)
(***************************************************************************)
C20_CooperationFromCounts ==
    Constructed =>
        /\ \A n \in DOMAIN Records :
            LET r == Records[n]
            IN  /\ r.cumulative_cooperation.player1
                    = r.outcome_counts.CC + r.outcome_counts.CD
                /\ r.cumulative_cooperation.player2
                    = r.outcome_counts.CC + r.outcome_counts.DC
        /\ \A i \in DOMAIN events :
            LET e == events[i]
            IN  e.name \in Totals =>
                    /\ e.total_cooperation.player1
                        = e.outcome_counts.CC + e.outcome_counts.CD
                    /\ e.total_cooperation.player2
                        = e.outcome_counts.CC + e.outcome_counts.DC

\* a finished simulation of several runs in which player 1 cooperated three
\* times and player 2 once
C20_Witness ==
    /\ pc = "exhausted"
    /\ config.monte_carlo_runs >= 2
    /\ events[Len(events)].name = "summary"
    /\ events[Len(events)].total_cooperation = [player1 |-> 3, player2 |-> 1]
    /\ events[Len(events)].outcome_counts.CD = 2

(***************************************************************************)
(* run_simulation under a seeded random source                             *)
(*                                                                         *)
(* torch.rand and torch.randint draw from torch's default generator.       *)
(* After torch.manual_seed(seed) the generator yields one fixed stream of  *)
(* values: rng_tape holds that stream as far as it has been drawn, and     *)
(* rng_pos counts the draws made since the generator was seeded.  A draw   *)
(* beyond the end of the tape can be any value and extends the tape; a     *)
(* draw at a position already on the tape returns the value on the tape.   *)
(***************************************************************************)
\* the number of values one sample_action call draws
Draws(s) == IF UsesRand(s) \/ UsesRandint(s) THEN 1 ELSE 0

\* mutant: the draw comes from a source manual_seed does not reset
NextValues_Unseeded(s, tape, pos) ==
    IF Draws(s) = 0 THEN {0}
    ELSE IF UsesRandint(s) THEN RandintValues ELSE RandValues

\* the values the draw of sample_action can return when pos values were
\* drawn since seeding
NextValues(s, tape, pos) ==
    IF Draws(s) = 0 THEN {0}
    ELSE IF pos < Len(tape) THEN {tape[pos + 1]}
    ELSE IF UsesRandint(s) THEN RandintValues ELSE RandValues

\* the tape after sample_action of s drew v at position pos
TapeAfter(s, tape, pos, v) ==
    IF Draws(s) = 1 /\ pos >= Len(tape) THEN Append(tape, v) ELSE tape

\* the strategies executed twice: the five kinds, the probabilistic one
\* with a probability strictly between 0 and 1
SeedStrategyInputs ==
    {s \in StrategyInputs :
        /\ s.strategy_type \in StrategyType
        /\ s.strategy_type = PROBABILISTIC =>
                (0 < s.cooperate_probability /\ s.cooperate_probability < ProbOne)}

\* the configurations executed twice: valid ones, default payoffs
SeedConfigInputs ==
    {c \in ConfigInputs :
        /\ ConstructionValid(c)
        /\ c.payoffs = DefaultPayoffs
        /\ \A k \in {1, 2} : c.player_strategies[k] \in SeedStrategyInputs}

\* torch.manual_seed(seed), before the first execution
InitSeed ==
    /\ inputs \in SeedConfigInputs
    /\ config = NoConfig
    /\ error = NoError
    /\ pc = "new"
    /\ EngineIdle
    /\ SessionIdle
    /\ StreamIdle
    /\ rng_tape = << >>
    /\ rng_pos = 0
    /\ execution = 1
    /\ first_events = << >>
    /\ SampleIdle

\* one iteration of the inner loop: player 1's sample_action draws first,
\* then player 2's (lines 178-185)
SeededPlayRound ==
    /\ pc = "round"
    /\ LET s1 == config.player_strategies[1]
           s2 == config.player_strategies[2]
           pos2 == rng_pos + Draws(s1)
       IN  \E v1 \in NextValues(s1, rng_tape, rng_pos) :
             LET tape1 == TapeAfter(s1, rng_tape, rng_pos, v1)
             IN  \E v2 \in NextValues(s2, tape1, pos2) :
                    /\ Round(v1, v2, v1, v2)
                    /\ rng_tape' = TapeAfter(s2, tape1, pos2, v2)
                    /\ rng_pos' = pos2 + Draws(s2)
    /\ UNCHANGED <<execution, first_events>>

\* the first execution is over: torch.manual_seed(seed) again, then
\* list(run_simulation(config)) for an equal configuration.  The new
\* generator's locals are assigned by its first next() (Begin).
RunAgain ==
    /\ pc = "exhausted"
    /\ execution = 1
    /\ first_events' = events
    /\ execution' = 2
    /\ rng_pos' = 0
    /\ events' = << >>
    /\ pc' = "created"
    /\ UNCHANGED <<inputs, config, error, payoff_matrix, run_index, round_index, run_payoff,
                   run_cooperation_counts, run_outcome_counts, previous_actions,
                   round_buffer, buffer_alias, overall_payoff, overall_cooperation_counts,
                   overall_outcome_counts, rng_tape, sessionVars, streamVars, callVars>>

NextSeed ==
    \/ ConstructOk
    \/ Begin
    \/ SeededPlayRound
    \/ FinishRun
    \/ EmitRunComplete
    \/ EmitSummary
    \/ Exhaust
    \/ RunAgain

SpecSeed == InitSeed /\ [][NextSeed]_vars

\* the action letters of player k in a sequence of events
RECURSIVE ActionsIn(_, _)
ActionsIn(q, k) ==
    IF q = << >> THEN << >>
    ELSE LET rest == ActionsIn(Tail(q), k)
         IN  IF Head(q).name = "round_batch"
             THEN [j \in DOMAIN Head(q).rounds |->
                        IF k = 1 THEN Head(q).rounds[j].actions.player1
                        ELSE Head(q).rounds[j].actions.player2] \o rest
             ELSE rest

(***************************************************************************)
(* C14.  Two complete executions of run_simulation with equal              *)
(* configurations, each started right after seeding the random source      *)
(* with the same seed, yield the same events: at every moment the second   *)
(* execution's events are a prefix of the first's, and when it ends the    *)
(* two sequences (and so both players' action sequences) are equal.        *)
(***************************************************************************)
C14_SeedDeterminism ==
    execution = 2 =>
        /\ Len(events) <= Len(first_events)
        /\ events = SubSeq(first_events, 1, Len(events))
        /\ pc = "exhausted" =>
                /\ events = first_events
                /\ \A k \in {1, 2} : ActionsIn(events, k) = ActionsIn(first_events, k)

\* the second execution of three rounds or more is over; player 1 is
\* probabilistic with 0 < p < 1 and both cooperated and defected
C14_Witness ==
    /\ execution = 2
    /\ pc = "exhausted"
    /\ config.player_strategies[1].strategy_type = PROBABILISTIC
    /\ config.player_strategies[1].cooperate_probability > 0
    /\ config.player_strategies[1].cooperate_probability < ProbOne
    /\ config.rounds >= 3
    /\ first_events # << >>
    /\ \E i, j \in DOMAIN ActionsIn(first_events, 1) :
            /\ ActionsIn(first_events, 1)[i] = "C"
            /\ ActionsIn(first_events, 1)[j] = "D"

(***************************************************************************)
(* backend/app.py: the streamed single run                                 *)
(*                                                                         *)
(* current_run is the global name: every read and write goes through it,   *)
(* so rebinding it (lines 78, 106, 204) replaces the dictionary all        *)
(* handlers and threads see.  The server handles requests in threads of    *)
(* their own; a handler record holds the locals of one request, a stream   *)
(* record the locals of one run_simulation_streaming call.  put_log keeps  *)
(* every payload given to progress_callback, run_queue those not yet       *)
(* taken off the queue.                                                    *)
(***************************************************************************)
\* the largest rounds value start_run accepts
RoundsLimit == 50000

\* the request parameters explored: [p1, p2, rounds, batch_size]
StreamInputs ==
    {[p1 |-> 1, p2 |-> ProbOne, rounds |-> r, batch_size |-> b] :
        r \in (0 - 1) .. MaxStreamRounds, b \in 0 .. MaxBatch}
    \cup {[p1 |-> ProbOne + 1, p2 |-> 0, rounds |-> 1, batch_size |-> 1],
          [p1 |-> ProbOne, p2 |-> 0, rounds |-> RoundsLimit + 1, batch_size |-> 1]}

\* current_run and current_run.get('status') == 'running'
IsRunning(cr) == cr.status # "none" /\ cr.status = "running"

\* {"status": "running", "rounds": rounds, "completed": 0, ...}
RunningRun(rounds) == [status |-> "running", rounds |-> rounds, completed |-> 0]

\* start_run lines 61-66: the request passes the validation
StartRunValid(in) ==
    /\ 0 <= in.p1 /\ in.p1 <= ProbOne
    /\ 0 <= in.p2 /\ in.p2 <= ProbOne
    /\ ~ (in.rounds < 0 \/ in.rounds > RoundsLimit)

\* a request arrives and its handler starts
Request(kind, in) ==
    /\ Len(handlers) < MaxRequests
    /\ kind = "simulate_stream" => in.rounds <= MaxStreamRounds
    /\ handlers' = Append(handlers, [kind |-> kind, pc |-> "check", in |-> in])
    /\ UNCHANGED <<current_run, run_queue, put_log, stream, engineVars, sessionVars, seedVars, callVars>>

\* start_run lines 53-66
start_run_check(h) ==
    /\ handlers[h].kind = "start_run"
    /\ handlers[h].pc = "check"
    /\ handlers' = [handlers EXCEPT ![h].pc =
            IF IsRunning(current_run) THEN "refused"
            ELSE IF ~ StartRunValid(handlers[h].in) THEN "invalid"
            ELSE "clear"]
    /\ UNCHANGED <<current_run, run_queue, put_log, stream, engineVars, sessionVars, seedVars, callVars>>

\* simulate_stream line 89
simulate_stream_check(h) ==
    /\ handlers[h].kind = "simulate_stream"
    /\ handlers[h].pc = "check"
    /\ handlers' = [handlers EXCEPT ![h].pc =
            IF IsRunning(current_run) THEN "generate" ELSE "clear"]
    /\ UNCHANGED <<current_run, run_queue, put_log, stream, engineVars, sessionVars, seedVars, callVars>>

\* lines 68-72 and 91-95: the queue is emptied
ClearQueue(h) ==
    /\ handlers[h].pc = "clear"
    /\ run_queue' = << >>
    /\ handlers' = [handlers EXCEPT ![h].pc = "start"]
    /\ UNCHANGED <<current_run, put_log, stream, engineVars, sessionVars, seedVars, callVars>>

\* the locals of run_simulation_streaming when the thread starts
NewStream(in) ==
    [pc |-> "init", p1 |-> in.p1, p2 |-> in.p2, rounds |-> in.rounds,
     batch_size |-> in.batch_size, remaining |-> 0, completed |-> 0,
     both_coop |-> 0, both_defect |-> 0, p1_coop_p2_defect |-> 0,
     p1_defect_p2_coop |-> 0, p1_total |-> 0, p2_total |-> 0]

\* lines 78-83 and 106-109: current_run is rebound and the thread started
StartThread(h) ==
    /\ handlers[h].pc = "start"
    /\ current_run' = RunningRun(handlers[h].in.rounds)
    /\ stream' = Append(stream, NewStream(handlers[h].in))
    /\ handlers' = [handlers EXCEPT ![h].pc =
            IF handlers[h].kind = "simulate_stream" THEN "generate" ELSE "done"]
    /\ UNCHANGED <<run_queue, put_log, engineVars, sessionVars, seedVars, callVars>>

\* simulate_stream.generate, lines 111-123: one payload is taken off the
\* queue and sent; a terminal payload ends the response
generate(h) ==
    /\ handlers[h].pc = "generate"
    /\ run_queue # << >>
    /\ run_queue' = Tail(run_queue)
    /\ handlers' = [handlers EXCEPT ![h].pc =
            IF Head(run_queue).type \in {"complete", "error"} THEN "done" ELSE "generate"]
    /\ UNCHANGED <<current_run, put_log, stream, engineVars, sessionVars, seedVars, callVars>>

\* the payload thread t hands to progress_callback; for 'complete' the
\* counts are the numerators of the summary's rates
Payload(type, t, th) ==
    [type |-> type, thread |-> t, completed |-> th.completed, total |-> th.rounds,
     both_cooperate |-> th.both_coop, both_defect |-> th.both_defect,
     p1_coop_p2_defect |-> th.p1_coop_p2_defect,
     p1_defect_p2_coop |-> th.p1_defect_p2_coop,
     p1_total |-> th.p1_total, p2_total |-> th.p2_total]

\* progress_callback(payload): run_queue.put(payload)
Put(m) ==
    /\ run_queue' = Append(run_queue, m)
    /\ put_log' = Append(put_log, m)

\* run_monte_carlo_simulation(p1, p2, rounds) raises: torch.rand of a
\* negative size, or the division by rounds of line 171
MonteCarloRaises(rounds) == rounds <= 0

\* lines 204-206 and 212-220
StreamBegin(t) ==
    /\ stream[t].pc = "init"
    /\ current_run' = RunningRun(stream[t].rounds)
    /\ stream' = [stream EXCEPT
            ![t].pc = IF stream[t].rounds = 0 THEN "zero" ELSE "loop",
            ![t].remaining = stream[t].rounds]
    /\ UNCHANGED <<run_queue, put_log, handlers, engineVars, sessionVars, seedVars, callVars>>

\* lines 207-208: rounds == 0
StreamZero(t) ==
    /\ stream[t].pc = "zero"
    /\ IF MonteCarloRaises(0)
       THEN /\ stream' = [stream EXCEPT ![t].pc = "raised"]
            /\ UNCHANGED <<run_queue, put_log>>
       ELSE /\ Put(Payload("complete", t, stream[t]))
            /\ stream' = [stream EXCEPT ![t].pc = "sent"]
    /\ UNCHANGED <<current_run, handlers, engineVars, sessionVars, seedVars, callVars>>

\* the outcomes of b rounds: torch.rand(b) < p1 and torch.rand(b) < p2
BatchOutcomes(b, p1, p2) ==
    {o \in [cc : 0 .. b, cd : 0 .. b, dc : 0 .. b, dd : 0 .. b] :
        /\ o.cc + o.cd + o.dc + o.dd = b
        /\ p1 <= 0 => (o.cc = 0 /\ o.cd = 0)
        /\ p1 >= ProbOne => (o.dc = 0 /\ o.dd = 0)
        /\ p2 <= 0 => (o.cc = 0 /\ o.dc = 0)
        /\ p2 >= ProbOne => (o.cd = 0 /\ o.dd = 0)}

\* mutant: the batch is not capped by the rounds that remain
Min_Uncapped(x, y) == x

\* min(batch_size, remaining)
Min(x, y) == IF x <= y THEN x ELSE y

\* the while condition of line 221
LoopGoesOn(th, cr) == th.remaining > 0 /\ cr.status = "running"

\* one iteration of the loop, lines 221-272; a batch of no rounds divides
\* by completed = 0, a negative one is refused by torch.rand
StreamBatch(t) ==
    /\ stream[t].pc = "loop"
    /\ LoopGoesOn(stream[t], current_run)
    /\ LET th == stream[t]
           b == Min(th.batch_size, th.remaining)
       IN  IF b <= 0
           THEN /\ stream' = [stream EXCEPT ![t].pc = "raised"]
                /\ UNCHANGED <<run_queue, put_log>>
           ELSE \E o \in BatchOutcomes(b, th.p1, th.p2) :
                    LET after == [th EXCEPT
                            !.both_coop = @ + o.cc,
                            !.both_defect = @ + o.dd,
                            !.p1_coop_p2_defect = @ + o.cd,
                            !.p1_defect_p2_coop = @ + o.dc,
                            !.p1_total = @ + 3 * o.cc + 0 * o.cd + 5 * o.dc + 1 * o.dd,
                            !.p2_total = @ + 3 * o.cc + 5 * o.cd + 0 * o.dc + 1 * o.dd,
                            !.completed = @ + b,
                            !.remaining = @ - b]
                    IN  /\ stream' = [stream EXCEPT ![t] = after]
                        /\ Put(Payload("progress", t, after))
    /\ UNCHANGED <<current_run, handlers, engineVars, sessionVars, seedVars, callVars>>

\* line 221: the while condition is false
StreamLoopExit(t) ==
    /\ stream[t].pc = "loop"
    /\ ~ LoopGoesOn(stream[t], current_run)
    /\ stream' = [stream EXCEPT ![t].pc = "after"]
    /\ UNCHANGED <<current_run, run_queue, put_log, handlers, engineVars, sessionVars, seedVars, callVars>>

\* lines 274-287: the summary is sent if the status (still) says running
StreamFinish(t) ==
    /\ stream[t].pc = "after"
    /\ IF current_run.status = "running"
       THEN /\ Put(Payload("complete", t, stream[t]))
            /\ stream' = [stream EXCEPT ![t].pc = "sent"]
       ELSE /\ stream' = [stream EXCEPT ![t].pc = "done"]
            /\ UNCHANGED <<run_queue, put_log>>
    /\ UNCHANGED <<current_run, handlers, engineVars, sessionVars, seedVars, callVars>>

\* lines 210 and 288
StreamSetCompleted(t) ==
    /\ stream[t].pc = "sent"
    /\ current_run' = [current_run EXCEPT !.status = "completed"]
    /\ stream' = [stream EXCEPT ![t].pc = "done"]
    /\ UNCHANGED <<run_queue, put_log, handlers, engineVars, sessionVars, seedVars, callVars>>

\* lines 289-291
StreamExcept(t) ==
    /\ stream[t].pc = "raised"
    /\ current_run' = [current_run EXCEPT !.status = "error"]
    /\ stream' = [stream EXCEPT ![t].pc = "except"]
    /\ UNCHANGED <<run_queue, put_log, handlers, engineVars, sessionVars, seedVars, callVars>>

\* line 292
StreamPutError(t) ==
    /\ stream[t].pc = "except"
    /\ Put(Payload("error", t, stream[t]))
    /\ stream' = [stream EXCEPT ![t].pc = "failed"]
    /\ UNCHANGED <<current_run, handlers, engineVars, sessionVars, seedVars, callVars>>

\* the engine and the sweep session take no part
InitStream ==
    /\ inputs = [rounds |-> 1, monte_carlo_runs |-> 1,
                 player_strategies |->
                    <<[strategy_type |-> ALWAYS_COOPERATE,
                       cooperate_probability |-> DefaultProbability],
                      [strategy_type |-> ALWAYS_COOPERATE,
                       cooperate_probability |-> DefaultProbability]>>,
                 payoffs |-> DefaultPayoffs, round_event_chunk_size |-> 1]
    /\ config = NoConfig
    /\ error = NoError
    /\ pc = "new"
    /\ EngineIdle
    /\ SessionIdle
    /\ StreamIdle
    /\ SeedIdle
    /\ SampleIdle

NextStream ==
    \/ \E kind \in {"start_run", "simulate_stream"}, in \in StreamInputs : Request(kind, in)
    \/ \E h \in DOMAIN handlers : start_run_check(h)
    \/ \E h \in DOMAIN handlers : simulate_stream_check(h)
    \/ \E h \in DOMAIN handlers : ClearQueue(h)
    \/ \E h \in DOMAIN handlers : StartThread(h)
    \/ \E h \in DOMAIN handlers : generate(h)
    \/ \E t \in DOMAIN stream : StreamBegin(t)
    \/ \E t \in DOMAIN stream : StreamZero(t)
    \/ \E t \in DOMAIN stream : StreamBatch(t)
    \/ \E t \in DOMAIN stream : StreamLoopExit(t)
    \/ \E t \in DOMAIN stream : StreamFinish(t)
    \/ \E t \in DOMAIN stream : StreamSetCompleted(t)
    \/ \E t \in DOMAIN stream : StreamExcept(t)
    \/ \E t \in DOMAIN stream : StreamPutError(t)

SpecStream == InitStream /\ [][NextStream]_vars

\* the payloads thread t has put, in order
PutsOf(t) == SelectSeq(put_log, LAMBDA m : m.thread = t)

Terminal(m) == m.type \in {"complete", "error"}

\* run_simulation_streaming has returned
Returned(th) == th.pc \in {"done", "failed"}

(***************************************************************************)
(* C17.  Every call of run_simulation_streaming puts exactly one terminal  *)
(* payload ('complete' or 'error'), as its last payload: never two, never  *)
(* one followed by another payload, and never none once it has returned.   *)
(***************************************************************************)
C17_OneTerminalPayload ==
    \A t \in DOMAIN stream :
        LET q == PutsOf(t)
            n == Cardinality({i \in DOMAIN q : Terminal(q[i])})
        IN  /\ n <= 1
            /\ n = 1 => Terminal(q[Len(q)])
            /\ Returned(stream[t]) => n = 1

(***************************************************************************)
(* C18.  At most one run_simulation_streaming thread is active at a time,  *)
(* and the payloads of two runs are not interleaved on the queue.          *)
(***************************************************************************)
C18_SingleActiveRun ==
    /\ Cardinality({t \in DOMAIN stream : ~ Returned(stream[t])}) <= 1
    /\ \A i, j, k \in DOMAIN put_log :
        (i < j /\ j < k /\ put_log[i].thread = put_log[k].thread)
            => put_log[j].thread = put_log[i].thread

(***************************************************************************)
(* Consecutive round records                                               *)
(***************************************************************************)
\* the count an outcome dictionary holds for the actions l1 (player 1) and
\* l2 (player 2)
CountOf(c, l1, l2) ==
    CASE l1 = "C" /\ l2 = "C" -> c.CC
      [] l1 = "C" /\ l2 = "D" -> c.CD
      [] l1 = "D" /\ l2 = "C" -> c.DC
      [] l1 = "D" /\ l2 = "D" -> c.DD

\* record n is the first record of its run
FirstOfRun(n) == n = 1 \/ Records[n - 1].run # Records[n].run

\* the outcome counts before record n within its run
CountsBefore(n) ==
    IF FirstOfRun(n) THEN [CC |-> 0, CD |-> 0, DC |-> 0, DD |-> 0]
    ELSE Records[n - 1].outcome_counts

\* the cumulative cooperation before record n within its run
CooperationBefore(n) ==
    IF FirstOfRun(n) THEN [player1 |-> 0, player2 |-> 0]
    ELSE Records[n - 1].cumulative_cooperation

Letters == {"C", "D"}

(***************************************************************************)
(* C21.  From one round record of a run to the next exactly one outcome    *)
(* count grows, by exactly 1: the one whose tag is the later record's      *)
(* player 1 action followed by its player 2 action.  In the first record   *)
(* of a run that count is 1 and the other three are 0.                     *)
(***************************************************************************)
C21_BucketOfActions ==
    Constructed =>
        \A n \in DOMAIN Records :
            LET r == Records[n]
                before == CountsBefore(n)
            IN  \A l1 \in Letters, l2 \in Letters :
                    CountOf(r.outcome_counts, l1, l2)
                        = CountOf(before, l1, l2)
                            + (IF l1 = r.actions.player1 /\ l2 = r.actions.player2
                               THEN 1 ELSE 0)

\* two finished runs of two rounds: run 1 played (C, D) then (D, C), and
\* run 2 started with (D, C)
C21_Witness ==
    /\ pc = "exhausted"
    /\ Len(Records) = 4
    /\ Records[1].actions = [player1 |-> "C", player2 |-> "D"]
    /\ Records[2].actions = [player1 |-> "D", player2 |-> "C"]
    /\ Records[2].run = 1
    /\ Records[3].actions = [player1 |-> "D", player2 |-> "C"]
    /\ Records[3].run = 2

(***************************************************************************)
(* C22.  In every round record each player's cumulative_cooperation is at  *)
(* most the record's round index within the run; it is 1 more than in the  *)
(* previous record of the same run if the player's cooperated flag is      *)
(* true and equal to it otherwise, counting from 0 at the start of every   *)
(* run.                                                                    *)
(***************************************************************************)
C22_CumulativeCooperation ==
    Constructed =>
        \A n \in DOMAIN Records :
            LET r == Records[n]
                before == CooperationBefore(n)
                step(flag) == IF flag THEN 1 ELSE 0
            IN  /\ r.cumulative_cooperation.player1 <= r.round
                /\ r.cumulative_cooperation.player2 <= r.round
                /\ r.round <= config.rounds
                /\ r.cumulative_cooperation.player1
                        = before.player1 + step(r.cooperated.player1)
                /\ r.cumulative_cooperation.player2
                        = before.player2 + step(r.cooperated.player2)
                /\ r.cooperated.player1 = (r.actions.player1 = "C")
                /\ r.cooperated.player2 = (r.actions.player2 = "C")

\* two finished runs of two rounds: player 1 cooperated in both rounds of
\* run 1 and defected in round 1 of run 2
C22_Witness ==
    /\ pc = "exhausted"
    /\ Len(Records) = 4
    /\ Records[2].run = 1
    /\ Records[2].cumulative_cooperation.player1 = 2
    /\ Records[3].run = 2
    /\ Records[3].cumulative_cooperation.player1 = 0
    /\ Records[4].cumulative_cooperation.player1 = 1

(***************************************************************************)
(* Per-run totals                                                          *)
(***************************************************************************)
\* the run_complete events yielded so far, in order
RunCompletes == SelectSeq(events, LAMBDA e : e.name = "run_complete")

\* the last round record of run k
LastRecordOf(k) ==
    CHOOSE r \in {Records[n] : n \in DOMAIN Records} :
        r.run = k /\ r.round = config.rounds

(***************************************************************************)
(* C23.  The summary's total_payoff, total_cooperation and outcome counts  *)
(* are the sums of those fields over the N run_complete events, and a      *)
(* run_complete event reports the totals of the rounds of its own run:     *)
(* the values of that run's last round record.                             *)
(***************************************************************************)
C23_SummaryIsFold ==
    Constructed =>
        \A i \in DOMAIN events :
            LET e == events[i]
                rc == RunCompletes
                Sum(F(_)) == SumSeq([j \in DOMAIN rc |-> F(rc[j])])
            IN  /\ e.name = "summary" =>
                    /\ Len(rc) = config.monte_carlo_runs
                    /\ e.total_payoff.player1 = Sum(LAMBDA x : x.total_payoff.player1)
                    /\ e.total_payoff.player2 = Sum(LAMBDA x : x.total_payoff.player2)
                    /\ e.total_cooperation.player1
                            = Sum(LAMBDA x : x.total_cooperation.player1)
                    /\ e.total_cooperation.player2
                            = Sum(LAMBDA x : x.total_cooperation.player2)
                    /\ e.outcome_counts.CC = Sum(LAMBDA x : x.outcome_counts.CC)
                    /\ e.outcome_counts.CD = Sum(LAMBDA x : x.outcome_counts.CD)
                    /\ e.outcome_counts.DC = Sum(LAMBDA x : x.outcome_counts.DC)
                    /\ e.outcome_counts.DD = Sum(LAMBDA x : x.outcome_counts.DD)
                /\ e.name = "run_complete" =>
                    /\ \E n \in DOMAIN Records :
                            Records[n].run = e.run /\ Records[n].round = config.rounds
                    /\ e.total_payoff = LastRecordOf(e.run).total_payoff
                    /\ e.total_cooperation = LastRecordOf(e.run).cumulative_cooperation
                    /\ e.outcome_counts = LastRecordOf(e.run).outcome_counts
                    /\ Sum4(e.outcome_counts) = config.rounds

\* a finished simulation of two runs of two rounds with custom payoffs
\* whose runs differ: run 1 played (C, C) twice, run 2 has a (D, D)
C23_Witness ==
    /\ pc = "exhausted"
    /\ config.monte_carlo_runs = 2
    /\ config.rounds = 2
    /\ config.payoffs # DefaultPayoffs
    /\ Len(RunCompletes) = 2
    /\ RunCompletes[1].outcome_counts.CC = 2
    /\ RunCompletes[2].outcome_counts.DD >= 1
    /\ events[Len(events)].name = "summary"

(***************************************************************************)
(* C24.  The round records appear in order: the n-th record emitted has    *)
(* cumulative_round = n = (run - 1) * R + round with 1 <= round <= R, the  *)
(* first record of every run has round = 1, and a finished simulation has  *)
(* emitted R * N records.                                                  *)
(***************************************************************************)
C24_SequentialRounds ==
    Constructed =>
        /\ \A n \in DOMAIN Records :
            LET r == Records[n]
            IN  /\ r.cumulative_round = n
                /\ r.cumulative_round = (r.run - 1) * config.rounds + r.round
                /\ 1 <= r.round
                /\ r.round <= config.rounds
                /\ 1 <= r.run
                /\ r.run <= config.monte_carlo_runs
                /\ FirstOfRun(n) => r.round = 1
                /\ ~ FirstOfRun(n) => r.round = Records[n - 1].round + 1
        /\ pc = "exhausted" => Len(Records) = config.rounds * config.monte_carlo_runs

\* a finished simulation of two runs of two rounds, in batches of one
\* record and a run-end batch
C24_Witness ==
    /\ pc = "exhausted"
    /\ config.monte_carlo_runs = 2
    /\ config.rounds = 2
    /\ Len(Records) = 4
    /\ Records[3].round = 1
    /\ Records[4].cumulative_round = 4

(***************************************************************************)
(* C25.  Every round_batch event holds between 1 and chunk_size records,   *)
(* all of the run whose run_complete comes next; the buffer is empty when  *)
(* a run starts and never holds chunk_size records between rounds; and     *)
(* when a run_complete is yielded every round of the runs so far has been  *)
(* emitted exactly once.                                                   *)
(***************************************************************************)
C25_BatchesCoverRounds ==
    Constructed =>
        /\ \A i \in DOMAIN events :
            LET e == events[i]
            IN  /\ e.name = "round_batch" =>
                    /\ Len(e.rounds) >= 1
                    /\ Len(e.rounds) <= config.round_event_chunk_size
                    /\ \A j \in DOMAIN e.rounds : e.rounds[j].run = RunOfEvent(i)
                /\ e.name = "run_complete" =>
                    LET q == RecordsTo(i)
                    IN  /\ Len(q) = e.run * config.rounds
                        /\ \A k \in 1 .. e.run, rd \in 1 .. config.rounds :
                            Cardinality({n \in DOMAIN q :
                                q[n].run = k /\ q[n].round = rd}) = 1
        /\ \A m, n \in DOMAIN Records :
            (Records[m].run = Records[n].run /\ Records[m].round = Records[n].round)
                => m = n
        /\ pc = "round" =>
            /\ Len(round_buffer) < config.round_event_chunk_size
            /\ round_index = 1 => round_buffer = << >>

\* a finished simulation of runs of three rounds with chunk size 2: a run
\* ends with a batch of one record
C25_Witness ==
    /\ pc = "exhausted"
    /\ config.round_event_chunk_size = 2
    /\ config.rounds = 3
    /\ Len(Records) = 3 * config.monte_carlo_runs
    /\ \E i \in DOMAIN events :
            events[i].name = "round_batch" /\ Len(events[i].rounds) = 1

(***************************************************************************)
(* C30.  An event that has been yielded is never changed by a later step:  *)
(* the events yielded so far stay where they are with the records, counts  *)
(* and totals they were yielded with; a step only appends events.          *)
(***************************************************************************)
C30_YieldedEventsFrozen ==
    [][/\ Len(events') >= Len(events)
       /\ \A i \in DOMAIN events : events'[i] = events[i]]_vars

\* a finished simulation of several runs of one round with chunk size 2:
\* every run ended by yielding its buffer while round_buffer still named
\* the yielded list, and later runs played further rounds
C30_Witness ==
    /\ pc = "exhausted"
    /\ config.round_event_chunk_size = 2
    /\ config.rounds = 1
    /\ config.monte_carlo_runs >= 2
    /\ events[1].name = "round_batch"
    /\ Len(events[1].rounds) = 1
    /\ Len(Records) = config.monte_carlo_runs

(***************************************************************************)
(* StrategyConfig.sample_action, one call at a time                        *)
(*                                                                         *)
(* A call record holds a StrategyConfig s, a second StrategyConfig of the  *)
(* same kind with a cooperate_probability of its own, and the arguments    *)
(* and random values both are sampled with.                                *)
(***************************************************************************)
\* the StrategyConfig objects that can be constructed: any probability for
\* the kinds __post_init__ does not check
SampleStrategies ==
    {s \in [strategy_type : StrategyType, cooperate_probability : ProbInputs] :
        StrategyConfigValid(s)}

CallInputs ==
    {c \in [s : SampleStrategies, other : SampleStrategies,
            round_index : 1 .. MaxSampleRound,
            opponent_previous_action : {0, 1},
            u : RandValues, b : RandintValues] :
        c.s.strategy_type = c.other.strategy_type}

InitSample ==
    /\ inputs = [rounds |-> 1, monte_carlo_runs |-> 1,
                 player_strategies |->
                    <<[strategy_type |-> ALWAYS_COOPERATE,
                       cooperate_probability |-> DefaultProbability],
                      [strategy_type |-> ALWAYS_COOPERATE,
                       cooperate_probability |-> DefaultProbability]>>,
                 payoffs |-> DefaultPayoffs, round_event_chunk_size |-> 1]
    /\ config = NoConfig
    /\ error = NoError
    /\ pc = "new"
    /\ EngineIdle
    /\ SessionIdle
    /\ StreamIdle
    /\ SeedIdle
    /\ call \in CallInputs
    /\ returned = << >>

\* s.sample_action(...) and other.sample_action(...) with the same
\* arguments and the same values from the random source
SampleCall ==
    /\ returned = << >>
    /\ returned' =
        <<sample_action(call.s, call.round_index, call.opponent_previous_action,
                        call.u, call.b),
          sample_action(call.other, call.round_index, call.opponent_previous_action,
                        call.u, call.b)>>
    /\ UNCHANGED <<call, engineVars, sessionVars, streamVars, seedVars>>

NextSample == SampleCall

SpecSample == InitSample /\ [][NextSample]_vars

Called == returned # << >>

(***************************************************************************)
(* C26.  For the always-cooperate, always-defect, tit-for-tat and random   *)
(* kinds sample_action does not depend on cooperate_probability: two       *)
(* StrategyConfigs of one such kind return the same action for the same    *)
(* round_index, opponent_previous_action and random values.                *)
(***************************************************************************)
C26_ProbabilityIgnored ==
    (/\ Called
     /\ call.s.strategy_type
            \in {ALWAYS_COOPERATE, ALWAYS_DEFECT, TIT_FOR_TAT, RANDOM})
    => /\ returned[1] = returned[2]
       /\ returned[1] \in {0, 1}

\* a random-kind strategy configured with probability 1.0 and one
\* configured with 0.0 were sampled with the same draw and both defected
C26_Witness ==
    /\ Called
    /\ call.s.strategy_type = RANDOM
    /\ call.s.cooperate_probability = ProbOne
    /\ call.other.cooperate_probability = 0
    /\ call.b = 1
    /\ returned = <<1, 1>>

(***************************************************************************)
(* C27.  The probabilistic kind cooperates exactly when the draw u from    *)
(* [0, 1) is below cooperate_probability; with probability 1 it            *)
(* cooperates for every draw, as always-cooperate does, and with           *)
(* probability 0 it defects for every draw, as always-defect does.         *)
(***************************************************************************)
C27_BernoulliTrial ==
    (Called /\ call.s.strategy_type = PROBABILISTIC) =>
        LET prob == call.s.cooperate_probability
            As(k) == sample_action([strategy_type |-> k, cooperate_probability |-> prob],
                                   call.round_index, call.opponent_previous_action,
                                   call.u, call.b)
        IN  /\ returned[1] \in {0, 1}
            /\ (returned[1] = 0) <=> (call.u < prob)
            /\ prob = ProbOne => (returned[1] = 0 /\ returned[1] = As(ALWAYS_COOPERATE))
            /\ prob = 0 => (returned[1] = 1 /\ returned[1] = As(ALWAYS_DEFECT))

\* a probabilistic strategy with probability 0 was sampled with the draw
\* 0.0 and defected
C27_Witness ==
    /\ Called
    /\ call.s.strategy_type = PROBABILISTIC
    /\ call.s.cooperate_probability = 0
    /\ call.u = 0
    /\ returned[1] = 1

(***************************************************************************)
(* backend/app.py: one request on an otherwise idle server                 *)
(*                                                                         *)
(* The same handlers and the same thread as in SpecStream, but a single    *)
(* request arrives: nothing else reads or writes current_run while         *)
(* run_simulation_streaming runs, so the run is not interrupted.           *)
(***************************************************************************)
\* the request parameters explored: both players cooperate with
\* probability 0.5, so every outcome can occur in every round
SoloInputs ==
    {[p1 |-> 1, p2 |-> 1, rounds |-> r, batch_size |-> b] :
        r \in (0 - 1) .. MaxSoloRounds, b \in 0 .. MaxBatch}
    \cup {[p1 |-> ProbOne + 1, p2 |-> 0, rounds |-> 1, batch_size |-> 1],
          [p1 |-> ProbOne, p2 |-> 0, rounds |-> RoundsLimit + 1, batch_size |-> 1]}

\* the only request arrives
SoloRequest(kind, in) ==
    /\ handlers = << >>
    /\ kind = "simulate_stream" => in.rounds <= MaxSoloRounds
    /\ handlers' = Append(handlers, [kind |-> kind, pc |-> "check", in |-> in])
    /\ UNCHANGED <<current_run, run_queue, put_log, stream, engineVars, sessionVars, seedVars, callVars>>

NextSolo ==
    \/ \E kind \in {"start_run", "simulate_stream"}, in \in SoloInputs : SoloRequest(kind, in)
    \/ \E h \in DOMAIN handlers : start_run_check(h)
    \/ \E h \in DOMAIN handlers : simulate_stream_check(h)
    \/ \E h \in DOMAIN handlers : ClearQueue(h)
    \/ \E h \in DOMAIN handlers : StartThread(h)
    \/ \E h \in DOMAIN handlers : generate(h)
    \/ \E t \in DOMAIN stream : StreamBegin(t)
    \/ \E t \in DOMAIN stream : StreamZero(t)
    \/ \E t \in DOMAIN stream : StreamBatch(t)
    \/ \E t \in DOMAIN stream : StreamLoopExit(t)
    \/ \E t \in DOMAIN stream : StreamFinish(t)
    \/ \E t \in DOMAIN stream : StreamSetCompleted(t)
    \/ \E t \in DOMAIN stream : StreamExcept(t)
    \/ \E t \in DOMAIN stream : StreamPutError(t)

SpecSolo == InitStream /\ [][NextSolo]_vars

\* the four outcome counters of a payload, added up
CountersOf(m) == m.both_cooperate + m.both_defect + m.p1_coop_p2_defect + m.p1_defect_p2_coop

(***************************************************************************)
(* C28.  run_simulation_streaming called with rounds = 0 puts exactly one  *)
(* payload, of type 'complete', and leaves the status 'completed': no      *)
(* payload of another type is ever put, and the call does not end with     *)
(* the status 'error'.                                                     *)
(***************************************************************************)
C28_ZeroRoundsCompletes ==
    \A t \in DOMAIN stream :
        stream[t].rounds = 0 =>
            /\ \A i \in DOMAIN PutsOf(t) : PutsOf(t)[i].type = "complete"
            /\ Len(PutsOf(t)) <= 1
            /\ Returned(stream[t]) =>
                    /\ Len(PutsOf(t)) = 1
                    /\ current_run.status = "completed"

(***************************************************************************)
(* C29.  In an uninterrupted run_simulation_streaming with rounds > 0 and  *)
(* batch_size > 0 every payload before the last is of type 'progress';     *)
(* in each of them the four outcome counters add up to 'completed',        *)
(* 'completed' is the previous value plus the smaller of batch_size and    *)
(* the rounds that remained (so it grows strictly) and is at most rounds;  *)
(* the 'complete' payload comes right after the progress payload with      *)
(* completed = rounds, which is number ceil(rounds / batch_size); and the  *)
(* call returns having put 'complete'.                                     *)
(***************************************************************************)
C29_ProgressAccounting ==
    \A t \in DOMAIN stream :
        LET th == stream[t]
            q == PutsOf(t)
            before(i) == IF i = 1 THEN 0 ELSE q[i - 1].completed
            left(i) == th.rounds - before(i)
        IN  (th.rounds > 0 /\ th.batch_size > 0) =>
                /\ \A i \in DOMAIN q :
                        /\ q[i].type \in {"progress", "complete"}
                        /\ q[i].type = "progress" =>
                                /\ CountersOf(q[i]) = q[i].completed
                                /\ q[i].completed
                                        = before(i) + (IF th.batch_size < left(i)
                                                       THEN th.batch_size ELSE left(i))
                                /\ q[i].completed > before(i)
                                /\ q[i].completed <= th.rounds
                                /\ q[i].total = th.rounds
                        /\ q[i].type = "complete" =>
                                /\ i = Len(q)
                                /\ i > 1
                                /\ q[i - 1].type = "progress"
                                /\ q[i - 1].completed = th.rounds
                                /\ i - 1 = Ceil(th.rounds, th.batch_size)
                /\ Returned(th) => (q # << >> /\ q[Len(q)].type = "complete")

\* a run of three rounds in batches of two has returned: its progress
\* payloads report 2 and 3 completed rounds, then 'complete' was put
C29_Witness ==
    \E t \in DOMAIN stream :
        /\ stream[t].rounds = 3
        /\ stream[t].batch_size = 2
        /\ Returned(stream[t])
        /\ Len(PutsOf(t)) = 3
        /\ PutsOf(t)[1].completed = 2
        /\ PutsOf(t)[2].completed = 3
        /\ PutsOf(t)[3].type = "complete"
        /\ current_run.status = "completed"

====
